---- MODULE Spec2Model ----
(***************************************************************************)
(* Model of the RPROP optimizer of Wapiti (src/src/rprop.c): the partial   *)
(* weight update trn_rpropsub run by W workers over disjoint index ranges, *)
(* and the training loop trn_rprop that drives it.                         *)
(*                                                                         *)
(* Numbers.  The C code works on doubles.  Weights, steps and deltas (x,   *)
(* stp, dlt, stpmin, stpmax) are modelled as integers counting units of    *)
(* 1/Unit; gradients (g, gp, pg, rho1) are modelled as integers counting   *)
(* gradient units.  The factors stpinc and stpdec are integers counting    *)
(* 1/Scale.  Within the bounds explored every product and sum is exact, so *)
(* the model is the real-number reading of the code; rounding, underflow   *)
(* and non-finite values of IEEE doubles are not modelled.                 *)
(*                                                                         *)
(* Index arithmetic.  F * id / cnt is computed in size_t.  trn_rprop       *)
(* allocates W + 3 vectors of F doubles before the first dispatch, and an  *)
(* allocation failure is fatal, so F * W * 8 fits the address space and    *)
(* F * (id + 1) cannot wrap: the products are modelled without wrap.       *)
(***************************************************************************)
EXTENDS Integers, Sequences, FiniteSets, TLC

(***************************************************************************)
(* Bounds of the model                                                     *)
(***************************************************************************)
\* largest number of features explored by the training-loop specification
MaxF == 3
\* largest number of workers
MaxW == 2
\* largest iteration budget of the training-loop specification
MaxIter == 2
\* iteration budget of the single-feature specification
MaxIterNum == 4
\* largest number of features explored by the partition specification
MaxPartF == 6
\* largest number of workers explored by the partition specification
MaxPartW == 4

\* weight units per 1.0
Unit == 1000000
\* denominator of the step factors
Scale == 10

\* gradient values the provider may return (training-loop specification)
GSmall == {-1, 3}
\* gradient values the provider may return (single-feature specification)
GFull == {-3, -1, 0, 1, 3}
\* objective values the provider may return (training-loop specification)
FXSet == {10, 20}
\* objective values the provider may return (single-feature specification)
FXOne == {10}
\* initial weights of the single-feature specification
X0 == {-(Unit \div 5), 0, Unit \div 20}
\* contents of the uninitialised delta vector
Garbage == {0, 7}
\* L1 weights explored
Rho1Set == {0, 2}
\* the rprop options of the concrete trace: 1e-6, 50, 1.2, 0.5
RpropDflt == [stpmin |-> 1, stpmax |-> 50 * Unit, stpinc |-> 12, stpdec |-> 5]
\* rprop options explored: the ones above, a narrow interval around the
\* initial step, and an interval below the initial step
RpropSet ==
  { RpropDflt,
    [stpmin |-> (8 * Unit) \div 100, stpmax |-> (11 * Unit) \div 100, stpinc |-> 12, stpdec |-> 5],
    [stpmin |-> 1,                 stpmax |-> (5 * Unit) \div 100,  stpinc |-> 12, stpdec |-> 5] }

VARIABLES
  nftr,      \* mdl->nftr, the number of features F
  nthread,   \* mdl->opt->nthread, the number of workers W
  maxiter,   \* mdl->opt->maxiter, the iteration budget K
  rprop,     \* mdl->opt->rprop: stpmin, stpmax, stpinc, stpdec
  rho1,      \* mdl->opt->rho1
  x,         \* mdl->theta
  g,         \* st->g
  gp,        \* st->gp
  stp,       \* st->stp
  dlt,       \* st->dlt
  uit_stop,  \* the stop flag
  pc,        \* position of trn_rprop
  k,         \* loop counter of trn_rprop
  fx,        \* objective value of the current iteration
  wpc,       \* position of each trn_rpropsub invocation
  wfrom,     \* local from of each invocation
  wto,       \* local to of each invocation
  wf,        \* local f of each invocation
  wpg,       \* local pg of each invocation
  hist,      \* history: what the gradient provider returned, per call
  calls,     \* history: arguments and result of each progress callback
  nupd,      \* history: number of updates applied to each feature
  last,      \* history: branch taken by the last update of each feature
  xprev,     \* history: x[f] before the last agree or neutral update of f
  acc,       \* history: indices touched by each invocation in this phase
  nphase,    \* history: number of update phases that have completed
  theta0,    \* history: the weights at the entry of trn_rprop
  halt,      \* history: what ended the loop
  npoll,     \* history: number of reads of the stop flag by trn_rprop
  sigphase,  \* history: n if the stop flag was set during the n-th update
             \* phase, 0 otherwise
  pre        \* history: x, g, gp, stp, dlt at the last dispatch or callback

vars == <<nftr, nthread, maxiter, rprop, rho1, x, g, gp, stp, dlt, uit_stop,
          pc, k, fx, wpc, wfrom, wto, wf, wpg, hist, calls, nupd, last,
          xprev, acc, nphase, theta0, halt, npoll, sigphase, pre>>

cfgvars == <<nftr, nthread, maxiter, rprop, rho1, theta0>>
mainvars == <<pc, k, fx>>
vecvars == <<x, g, gp, stp, dlt>>
wrkvars == <<wpc, wfrom, wto, wf, wpg>>
ghostvec == <<nupd, last, xprev>>

Features == 0 .. (nftr - 1)
Workers == 0 .. (nthread - 1)

(***************************************************************************)
(* Helpers of trn_rpropsub                                                 *)
(***************************************************************************)
sign(v) == IF v < 0 THEN -1 ELSE IF v > 0 THEN 1 ELSE 0

min(a, b) == IF a < b THEN a ELSE b

max(a, b) == IF a < b THEN b ELSE a

\* stp[f] * stpinc and stp[f] * stpdec, the factor counted in 1/Scale
Times(v, fac) == (v * fac) \div Scale

\* a slip in the divisor: from = F * id / (cnt + 1)
RangeFromOff(F, id, cnt) == (F * id) \div (cnt + 1)

\* const size_t from = F * id / cnt
RangeFrom(F, id, cnt) == (F * id) \div cnt

\* the remainder is dropped: to = (F / cnt) * (id + 1)
RangeToTrunc(F, id, cnt) == (F \div cnt) * (id + 1)

\* const size_t to = F * (id + 1) / cnt
RangeTo(F, id, cnt) == (F * (id + 1)) \div cnt

\* the penalty is subtracted for a positive weight as well (line 95 with -=)
PseudoGradFlip(l1, r1, xf, gf) ==
  IF ~l1 THEN gf
  ELSE IF xf < 0 THEN gf - r1
  ELSE IF xf > 0 THEN gf - r1
  ELSE IF gf < -r1 THEN gf + r1
  ELSE IF gf > r1 THEN gf - r1
  ELSE 0

\* the pseudo-gradient of lines 92-99
PseudoGrad(l1, r1, xf, gf) ==
  IF ~l1 THEN gf
  ELSE IF xf < 0 THEN gf - r1
  ELSE IF xf > 0 THEN gf + r1
  ELSE IF gf < -r1 THEN gf + r1
  ELSE IF gf > r1 THEN gf - r1
  ELSE 0

\* the guard of lines 107-108 is missing: the candidate step is kept
GuardNone(l1, d, pg) == d

\* the orthant guard of lines 107-108 and 116-117
Guard(l1, d, pg) == IF l1 /\ d * pg >= 0 THEN 0 ELSE d

\* the second test is not strict: a zero product counts as disagreement
BranchZeroDis(gpf, pg) ==
  IF gpf * pg > 0 THEN "agree"
  ELSE IF gpf * pg <= 0 THEN "disagree"
  ELSE "neutral"

\* the first test is not strict: a zero product counts as agreement
BranchWeak(gpf, pg) ==
  IF gpf * pg >= 0 THEN "agree"
  ELSE IF gpf * pg < 0 THEN "disagree"
  ELSE "neutral"

\* the branch chosen at lines 104, 110, 114
Branch(gpf, pg) ==
  IF gpf * pg > 0 THEN "agree"
  ELSE IF gpf * pg < 0 THEN "disagree"
  ELSE "neutral"

\* the step is not shrunk on disagreement: line 111 is missing
NewStpNoDec(br, o, stpf) ==
  IF br = "agree" THEN min(Times(stpf, o.stpinc), o.stpmax)
  ELSE IF br = "disagree" THEN stpf
  ELSE stpf

\* the new step of lines 105, 111 (unchanged in the third branch)
NewStp(br, o, stpf) ==
  IF br = "agree" THEN min(Times(stpf, o.stpinc), o.stpmax)
  ELSE IF br = "disagree" THEN max(Times(stpf, o.stpdec), o.stpmin)
  ELSE stpf

\* the new delta of lines 106-108, 115-117 (unchanged in the second branch)
NewDlt(br, l1, ns, gf, pg, dltf) ==
  IF br = "agree" THEN Guard(l1, ns * (-sign(gf)), pg)
  ELSE IF br = "disagree" THEN dltf
  ELSE Guard(l1, ns * (-sign(pg)), pg)

\* the revert of line 112 with the wrong sign: x[f] = x[f] + dlt[f]
NewXPlus(br, xf, nd, dltf) ==
  IF br = "disagree" THEN xf + dltf ELSE xf + nd

\* the new weight of lines 109, 112, 118
NewX(br, xf, nd, dltf) ==
  IF br = "disagree" THEN xf - dltf ELSE xf + nd

\* line 113 is missing: the gradient is kept on disagreement
NewGKeep(br, gf) == gf

\* the gradient left in g[f] (line 113)
NewG(br, gf) == IF br = "disagree" THEN 0 ELSE gf

\* the pseudo-gradient is carried forward: gp[f] = pg
NewGpPseudo(ng, pg) == pg

\* gp[f] = g[f] (line 120), g[f] being the value left by the branch
NewGp(ng, pg) == ng

\* one pass of the loop body, lines 104-120, for one feature
Update(o, r1, xf, gf, gpf, stpf, dltf, pg) ==
  LET l1 == r1 # 0
      br == Branch(gpf, pg)
      ns == NewStp(br, o, stpf)
      nd == NewDlt(br, l1, ns, gf, pg, dltf)
      ng == NewG(br, gf)
  IN  [br |-> br, stp |-> ns, dlt |-> nd, x |-> NewX(br, xf, nd, dltf),
       g |-> ng, gp |-> NewGp(ng, pg)]

(***************************************************************************)
(* Initial states: the state at line 151, after the allocations and the    *)
(* initialisation loop of lines 129-148                                    *)
(***************************************************************************)
\* stp[f] = 0.1 (line 133)
StpInit == Unit \div 10

\* the vectors as they are at a phase boundary; dlt[f] is undefined until
\* the first update of f has written it and is recorded as 0 until then
Boundary(vx, vg, vgp, vstp, vdlt, vn) ==
  [x |-> vx, g |-> vg, gp |-> vgp, stp |-> vstp,
   dlt |-> [f \in DOMAIN vdlt |-> IF vn[f] > 0 THEN vdlt[f] ELSE 0]]

InitState(Fs, Ws, Ks, Os, Xs) ==
  /\ nftr \in Fs
  /\ nthread \in Ws
  /\ maxiter \in Ks
  /\ rprop \in Os
  /\ rho1 \in Rho1Set
  /\ x \in [Features -> Xs]
  /\ g \in [Features -> {0}]
  /\ gp = [f \in Features |-> 0]
  /\ stp = [f \in Features |-> StpInit]
  /\ dlt \in [Features -> Garbage]
  /\ uit_stop = FALSE
  /\ pc = "loop"
  /\ k = 0
  /\ fx = 0
  /\ wpc = [w \in Workers |-> "idle"]
  /\ wfrom = [w \in Workers |-> 0]
  /\ wto = [w \in Workers |-> 0]
  /\ wf = [w \in Workers |-> 0]
  /\ wpg = [w \in Workers |-> 0]
  /\ hist = << >>
  /\ calls = << >>
  /\ nupd = [f \in Features |-> 0]
  /\ last = [f \in Features |-> "none"]
  /\ xprev = x
  /\ acc = [w \in Workers |-> {}]
  /\ nphase = 0
  /\ theta0 = x
  /\ halt = "none"
  /\ npoll = 0
  /\ sigphase = 0
  /\ pre = Boundary(x, g, gp, stp, dlt, nupd)

\* the training loop over several features and workers
Init == InitState(0 .. MaxF, 1 .. MaxW, 0 .. MaxIter, {RpropDflt}, {0})

\* the training loop over at most two features, for the liveness checks
InitFair == InitState({0, 1, 2}, 1 .. MaxW, 0 .. MaxIter, {RpropDflt}, {0})

\* one iteration over more features and workers
InitPart == InitState(0 .. MaxPartF, 1 .. MaxPartW, {1}, {RpropDflt}, {0})

\* one feature, one worker, a longer run and more initial weights
InitNum == InitState({1}, {1}, {MaxIterNum}, RpropSet, X0)

(***************************************************************************)
(* trn_rpropsub, one invocation per worker id                              *)
(***************************************************************************)
\* the loop of line 88 starts at 0 instead of from
SubStartZero(w) ==
  /\ wpc[w] = "start"
  /\ wfrom' = [wfrom EXCEPT ![w] = RangeFrom(nftr, w, nthread)]
  /\ wto' = [wto EXCEPT ![w] = RangeTo(nftr, w, nthread)]
  /\ wf' = [wf EXCEPT ![w] = 0]
  /\ wpc' = [wpc EXCEPT ![w] = "loop"]
  /\ UNCHANGED <<halt, npoll, sigphase, pre>>
  /\ UNCHANGED <<cfgvars, nphase, mainvars, vecvars, uit_stop, wpg, hist, calls,
                 ghostvec, acc>>

\* lines 75-88: read the configuration, compute from and to, f = from
SubStart(w) ==
  /\ wpc[w] = "start"
  /\ wfrom' = [wfrom EXCEPT ![w] = RangeFrom(nftr, w, nthread)]
  /\ wto' = [wto EXCEPT ![w] = RangeTo(nftr, w, nthread)]
  /\ wf' = [wf EXCEPT ![w] = RangeFrom(nftr, w, nthread)]
  /\ wpc' = [wpc EXCEPT ![w] = "loop"]
  /\ UNCHANGED <<halt, npoll, sigphase, pre>>
  /\ UNCHANGED <<cfgvars, nphase, mainvars, vecvars, uit_stop, wpg, hist, calls,
                 ghostvec, acc>>

\* line 88 with f < to, then lines 92-99: the pseudo-gradient of feature f
SubPg(w) ==
  /\ wpc[w] = "loop"
  /\ wf[w] < wto[w]
  /\ wpg' = [wpg EXCEPT ![w] = PseudoGrad(rho1 # 0, rho1, x[wf[w]], g[wf[w]])]
  /\ acc' = [acc EXCEPT ![w] = @ \cup {wf[w]}]
  /\ wpc' = [wpc EXCEPT ![w] = "upd"]
  /\ UNCHANGED <<halt, npoll, sigphase, pre>>
  /\ UNCHANGED <<cfgvars, nphase, mainvars, vecvars, uit_stop, wfrom, wto, wf, hist,
                 calls, ghostvec>>

\* lines 104-120 for feature f, then f++
SubUpd(w) ==
  /\ wpc[w] = "upd"
  /\ LET f == wf[w]
         r == Update(rprop, rho1, x[f], g[f], gp[f], stp[f], dlt[f], wpg[w])
     IN  /\ x' = [x EXCEPT ![f] = r.x]
         /\ g' = [g EXCEPT ![f] = r.g]
         /\ gp' = [gp EXCEPT ![f] = r.gp]
         /\ stp' = [stp EXCEPT ![f] = r.stp]
         /\ dlt' = [dlt EXCEPT ![f] = r.dlt]
         /\ nupd' = [nupd EXCEPT ![f] = @ + 1]
         /\ last' = [last EXCEPT ![f] = r.br]
         /\ xprev' = [xprev EXCEPT ![f] = IF r.br = "disagree" THEN @ ELSE x[f]]
         /\ wf' = [wf EXCEPT ![w] = f + 1]
  /\ wpc' = [wpc EXCEPT ![w] = "loop"]
  /\ UNCHANGED <<halt, npoll, sigphase, pre>>
  /\ UNCHANGED <<cfgvars, nphase, mainvars, uit_stop, wfrom, wto, wpg, hist, calls,
                 acc>>

\* the loop of line 88 also ends when the stop flag is set
SubEndEarly(w) ==
  /\ wpc[w] = "loop"
  /\ wf[w] >= wto[w] \/ uit_stop
  /\ wpc' = [wpc EXCEPT ![w] = "done"]
  /\ UNCHANGED <<halt, npoll, sigphase, pre>>
  /\ UNCHANGED <<cfgvars, nphase, mainvars, vecvars, uit_stop, wfrom, wto, wf, wpg,
                 hist, calls, ghostvec, acc>>

\* line 88 with f >= to, line 122: the invocation returns
SubEnd(w) ==
  /\ wpc[w] = "loop"
  /\ wf[w] >= wto[w]
  /\ wpc' = [wpc EXCEPT ![w] = "done"]
  /\ UNCHANGED <<halt, npoll, sigphase, pre>>
  /\ UNCHANGED <<cfgvars, nphase, mainvars, vecvars, uit_stop, wfrom, wto, wf, wpg,
                 hist, calls, ghostvec, acc>>

(***************************************************************************)
(* trn_rprop, the training loop of lines 151-158                           *)
(***************************************************************************)
\* the budget test of line 151 is off by one: k <= K
LoopTestOff ==
  /\ pc = "loop"
  /\ pc' = IF ~uit_stop /\ k <= maxiter THEN "grad" ELSE "done"
  /\ npoll' = npoll + 1
  /\ halt' = IF ~uit_stop /\ k <= maxiter THEN halt
             ELSE IF uit_stop THEN "stop" ELSE "budget"
  /\ UNCHANGED <<sigphase, pre>>
  /\ UNCHANGED <<cfgvars, nphase, k, fx, vecvars, uit_stop, wrkvars, hist, calls,
                 ghostvec, acc>>

\* the stop flag is not read in the loop condition: k < K only
LoopTestNoPoll ==
  /\ pc = "loop"
  /\ pc' = IF k < maxiter THEN "grad" ELSE "done"
  /\ halt' = IF k < maxiter THEN halt ELSE "budget"
  /\ UNCHANGED <<npoll, sigphase, pre>>
  /\ UNCHANGED <<cfgvars, nphase, k, fx, vecvars, uit_stop, wrkvars, hist, calls,
                 ghostvec, acc>>

\* line 151: for (...; !uit_stop && k < K; ...)
LoopTest ==
  /\ pc = "loop"
  /\ pc' = IF ~uit_stop /\ k < maxiter THEN "grad" ELSE "done"
  /\ npoll' = npoll + 1
  /\ halt' = IF ~uit_stop /\ k < maxiter THEN halt
             ELSE IF uit_stop THEN "stop" ELSE "budget"
  /\ UNCHANGED <<sigphase, pre>>
  /\ UNCHANGED <<cfgvars, nphase, k, fx, vecvars, uit_stop, wrkvars, hist, calls,
                 ghostvec, acc>>

\* line 152: double fx = grd_gradient(mdl, g, grds); the provider fills g
Gradient(GS, FS) ==
  /\ pc = "grad"
  /\ \E ng \in [Features -> GS], nfx \in FS :
       /\ g' = ng
       /\ fx' = nfx
       /\ hist' = Append(hist, [g |-> ng, fx |-> nfx])
  /\ pc' = "chk"
  /\ UNCHANGED <<halt, npoll, sigphase, pre>>
  /\ UNCHANGED <<cfgvars, nphase, k, x, gp, stp, dlt, uit_stop, wrkvars, calls,
                 ghostvec, acc>>

\* the break of line 154 is missing: the update phase is always dispatched
StopCheckNoBreak ==
  /\ pc = "chk"
  /\ pc' = "spawn"
  /\ npoll' = npoll + 1
  /\ UNCHANGED <<halt, sigphase, pre>>
  /\ UNCHANGED <<cfgvars, nphase, k, fx, vecvars, uit_stop, wrkvars, hist, calls,
                 ghostvec, acc>>

\* the dispatch of line 155 is skipped: progress is reported right away
StopCheckNoSpawn ==
  /\ pc = "chk"
  /\ pc' = IF uit_stop THEN "done" ELSE "progress"
  /\ npoll' = npoll + 1
  /\ halt' = IF uit_stop THEN "stop" ELSE halt
  /\ UNCHANGED <<sigphase, pre>>
  /\ UNCHANGED <<cfgvars, nphase, k, fx, vecvars, uit_stop, wrkvars, hist, calls,
                 ghostvec, acc>>

\* lines 153-154: if (uit_stop) break;
StopCheck ==
  /\ pc = "chk"
  /\ pc' = IF uit_stop THEN "done" ELSE "spawn"
  /\ npoll' = npoll + 1
  /\ halt' = IF uit_stop THEN "stop" ELSE halt
  /\ UNCHANGED <<sigphase, pre>>
  /\ UNCHANGED <<cfgvars, nphase, k, fx, vecvars, uit_stop, wrkvars, hist, calls,
                 ghostvec, acc>>

\* line 155: mth_spawn(trn_rpropsub, W, rprop, 0, 0) starts one invocation
\* per worker id
Spawn ==
  /\ pc = "spawn"
  /\ wpc' = [w \in Workers |-> "start"]
  /\ acc' = [w \in Workers |-> {}]
  /\ pc' = "join"
  /\ pre' = Boundary(x, g, gp, stp, dlt, nupd)
  /\ UNCHANGED <<halt, npoll, sigphase>>
  /\ UNCHANGED <<cfgvars, nphase, k, fx, vecvars, uit_stop, wfrom, wto, wf, wpg,
                 hist, calls, ghostvec>>

\* line 155: mth_spawn returns once every invocation has returned
Join ==
  /\ pc = "join"
  /\ \A w \in Workers : wpc[w] = "done"
  /\ wpc' = [w \in Workers |-> "idle"]
  /\ pc' = "progress"
  /\ nphase' = nphase + 1
  /\ UNCHANGED <<halt, npoll, sigphase, pre>>
  /\ UNCHANGED <<cfgvars, k, fx, vecvars, uit_stop, wfrom, wto, wf, wpg,
                 hist, calls, ghostvec, acc>>

\* the loop counter itself is handed to uit_progress
ProgressItZero(kk) == kk

\* the iteration number handed to uit_progress (line 156)
ProgressIt(kk) == kk + 1

\* lines 156-157 and the k++ of line 151: the callback decides to go on
Progress ==
  /\ pc = "progress"
  /\ \E res \in BOOLEAN :
       /\ calls' = Append(calls, [it |-> ProgressIt(k), fx |-> fx, res |-> res])
       /\ pc' = IF res THEN "loop" ELSE "done"
       /\ k' = IF res THEN k + 1 ELSE k
       /\ halt' = IF res THEN halt ELSE "callback"
  /\ pre' = Boundary(x, g, gp, stp, dlt, nupd)
  /\ UNCHANGED <<cfgvars, npoll, sigphase, nphase, fx, vecvars, uit_stop, wrkvars, hist, ghostvec, acc>>

\* the stop flag is set asynchronously, e.g. by a signal handler
SignalStop ==
  /\ pc # "done"
  /\ ~uit_stop
  /\ uit_stop' = TRUE
  /\ sigphase' = IF pc = "join" THEN k + 1 ELSE 0
  /\ UNCHANGED <<halt, npoll, pre>>
  /\ UNCHANGED <<cfgvars, nphase, mainvars, vecvars, wrkvars, hist, calls, ghostvec,
                 acc>>

Sub == \E w \in Workers : SubStart(w) \/ SubPg(w) \/ SubUpd(w) \/ SubEnd(w)

Main(GS, FS) == LoopTest \/ Gradient(GS, FS) \/ StopCheck \/ Spawn \/ Join \/ Progress

Next == Main(GSmall, FXSet) \/ Sub \/ SignalStop

NextNum == Main(GFull, FXOne) \/ Sub \/ SignalStop

NextPart == Main({1}, FXOne) \/ Sub \/ SignalStop

NextFair == Main(GSmall, FXOne) \/ Sub \/ SignalStop

Spec == Init /\ [][Next]_vars

SpecPart == InitPart /\ [][NextPart]_vars

\* the training loop when every call of the gradient provider, every
\* invocation of trn_rpropsub and every progress callback returns
SpecFair ==
  /\ InitFair
  /\ [][NextFair]_vars
  /\ WF_vars(Main(GSmall, FXOne))
  /\ WF_vars(Sub)

SpecNum == InitNum /\ [][NextNum]_vars

TypeOK ==
  /\ nftr \in Nat
  /\ pc \in {"loop", "grad", "chk", "spawn", "join", "progress", "done"}
  /\ \A w \in Workers : wpc[w] \in {"idle", "start", "loop", "upd", "done"}
  /\ k \in 0 .. maxiter

(***************************************************************************)
(* Properties                                                              *)
(***************************************************************************)
\* every invocation of the current phase has computed its range
AllStarted == pc = "join" /\ \A w \in Workers : wpc[w] \in {"loop", "upd", "done"}

\* the workers whose range [from, to) holds index f
Owners(f) == {w \in Workers : wfrom[w] <= f /\ f < wto[w]}

\* C1: the ranges [from, to) computed by the W invocations of a phase are
\* contiguous (the first starts at 0, each starts where the previous one
\* ends, the last ends at F), none is reversed, and every index of [0, F)
\* lies in exactly one of them
C1_PartitionCovers ==
  AllStarted =>
    /\ wfrom[0] = 0
    /\ wto[nthread - 1] = nftr
    /\ \A w \in Workers : wfrom[w] <= wto[w]
    /\ \A w \in Workers : w + 1 < nthread => wto[w] = wfrom[w + 1]
    /\ \A f \in Features : Cardinality(Owners(f)) = 1
    /\ \A w \in Workers : \A f \in wfrom[w] .. (wto[w] - 1) : f \in Features

\* C1 witness: the ranges are computed for an F that W does not divide and
\* that is smaller than W, so that some ranges are empty and some are not
C1_Witness ==
  /\ AllStarted
  /\ nftr % nthread # 0
  /\ nftr < nthread
  /\ \E w \in Workers : wfrom[w] = wto[w]
  /\ \E w \in Workers : wfrom[w] < wto[w]

\* C2: every step lies in [stpmin, stpmax], from initialisation on
C2_StepInBounds ==
  \A f \in Features : rprop.stpmin <= stp[f] /\ stp[f] <= rprop.stpmax

\* C3: within one update phase no index is touched by two invocations
C3_NoSharedIndex ==
  \A w1 \in Workers : \A w2 \in Workers :
    w1 # w2 => acc[w1] \cap acc[w2] = {}

\* C3 witness: two invocations are inside the loop body at the same time,
\* each between its reads and its writes of a feature
C3_Witness ==
  \E w1 \in Workers : \E w2 \in Workers :
    /\ w1 # w2
    /\ wpc[w1] = "upd" /\ wpc[w2] = "upd"
    /\ acc[w1] # {} /\ acc[w2] # {}

\* C4: when the stop flag is found set at line 153, the loop ends at once:
\* no invocation is started, x, gp, stp, dlt and the number of updates of
\* every feature stay as the previous iteration left them, and the progress
\* callback is not called; once the loop has ended nothing changes any more
C4_StopAfterGradient ==
  /\ [][(pc = "chk" /\ uit_stop) =>
          /\ pc' = "done"
          /\ UNCHANGED <<x, gp, stp, dlt, nupd, wpc, calls, nphase>>]_vars
  /\ [][pc = "done" =>
          UNCHANGED <<pc, x, gp, stp, dlt, nupd, wpc, calls, nphase>>]_vars
  /\ []((pc = "done" /\ Len(hist) > Len(calls)) =>
          /\ nphase = Len(calls)
          /\ \A f \in Features : nupd[f] = Len(calls)
          /\ \A w \in Workers : wpc[w] = "idle")

\* C4 witness: the loop has ended in its second iteration on a stop flag
\* found set after the gradient provider returned
C4_Witness ==
  /\ pc = "done" /\ uit_stop
  /\ nftr > 0
  /\ Len(hist) = 2 /\ Len(calls) = 1 /\ nphase = 1

\* C5: an invocation runs only while trn_rprop is inside mth_spawn, after
\* the gradient provider has returned for this iteration and before the
\* progress callback of this iteration; the features not yet updated hold
\* the gradient the provider returned; at the progress callback of
\* iteration k and at every later step up to the next dispatch every
\* feature has been updated in every iteration so far and no invocation runs
C5_Ordering ==
  /\ (\E w \in Workers : wpc[w] # "idle") =>
       /\ pc = "join"
       /\ Len(hist) = k + 1 /\ Len(calls) = k /\ nphase = k
       /\ \A f \in Features : nupd[f] \in {k, k + 1}
       /\ \A f \in Features : nupd[f] = k => g[f] = hist[k + 1].g[f]
  /\ pc = "progress" =>
       /\ \A w \in Workers : wpc[w] = "idle"
       /\ nphase = k + 1 /\ Len(hist) = k + 1
       /\ \A f \in Features : nupd[f] = k + 1
  /\ pc \in {"loop", "grad", "chk", "spawn"} =>
       /\ \A w \in Workers : wpc[w] = "idle"
       /\ nphase = k
       /\ \A f \in Features : nupd[f] = k

\* C5 witness: in the second iteration one invocation has returned while
\* another is still inside the loop body
C5_Witness ==
  /\ k = 1 /\ pc = "join"
  /\ \E w1 \in Workers : \E w2 \in Workers :
       wpc[w1] = "done" /\ wpc[w2] = "upd" /\ wfrom[w1] < wto[w1]

\* what C6 says of the callbacks but for the iteration number: one call per
\* completed update phase and none without, each call is given the objective
\* value the provider returned in its iteration, and after a call that
\* returned stop there is no further gradient computation or update phase
ProgressCalls ==
  /\ Len(calls) = (IF pc = "progress" THEN nphase - 1 ELSE nphase)
  /\ Len(calls) <= Len(hist)
  /\ \A i \in 1 .. Len(calls) : calls[i].fx = hist[i].fx
  /\ \A i \in 1 .. Len(calls) :
       ~calls[i].res =>
         /\ i = Len(calls)
         /\ pc = "done"
         /\ Len(hist) = i /\ nphase = i
         /\ \A w \in Workers : wpc[w] = "idle"

\* C6 as stated: the callbacks are as above and the call of iteration k,
\* k = 0 .. maxiter - 1, is given the iteration index k
C6_ProgressIndexK ==
  /\ ProgressCalls
  /\ \A i \in 1 .. Len(calls) : calls[i].it = i - 1

\* C6 amended: the callbacks are as above and the call of iteration k,
\* k = 0 .. maxiter - 1, is given k + 1, the number of iterations done
C6_ProgressIndexK1 ==
  /\ ProgressCalls
  /\ \A i \in 1 .. Len(calls) : calls[i].it = i

\* C6 witness: two callbacks with different objective values, the second
\* of which returned stop
C6_Witness ==
  /\ Len(calls) = 2
  /\ calls[1].fx # calls[2].fx
  /\ calls[1].res /\ ~calls[2].res
  /\ nftr > 0

\* the gradients the provider returned for feature f in its first n calls
Fed(f, n) == [i \in 1 .. n |-> hist[i].g[f]]

\* the setting of the concrete trace: F = 1, W = 1, no L1, x = 0 at entry,
\* stpmin = 1e-6, stpmax = 50, stpinc = 1.2, stpdec = 0.5
TraceSetting ==
  /\ nftr = 1 /\ nthread = 1
  /\ rho1 = 0
  /\ rprop = RpropDflt
  /\ theta0[0] = 0

\* C7: in the setting above, the gradients 1.0, 1.0, -1.0 give x = -0.10,
\* stp = 0.10, gp = 1.0 by the neutral branch, then x = -0.22, stp = 0.12,
\* gp = 1.0 by the agree branch, then x = -0.10, stp = 0.06, gp = 0.0 by
\* the disagree branch
C7_Trace ==
  TraceSetting =>
    /\ (nupd[0] = 1 /\ Fed(0, 1) = <<1>>) =>
         /\ x[0] = -((10 * Unit) \div 100)
         /\ stp[0] = (10 * Unit) \div 100
         /\ gp[0] = 1
         /\ last[0] = "neutral"
    /\ (nupd[0] = 2 /\ Fed(0, 2) = <<1, 1>>) =>
         /\ x[0] = -((22 * Unit) \div 100)
         /\ stp[0] = (12 * Unit) \div 100
         /\ gp[0] = 1
         /\ last[0] = "agree"
    /\ (nupd[0] = 3 /\ Fed(0, 3) = <<1, 1, -1>>) =>
         /\ x[0] = -((10 * Unit) \div 100)
         /\ stp[0] = (6 * Unit) \div 100
         /\ gp[0] = 0
         /\ last[0] = "disagree"

\* C7 witness: the third update of the trace has been applied
C7_Witness ==
  /\ TraceSetting
  /\ nupd[0] = 3 /\ Fed(0, 3) = <<1, 1, -1>>
  /\ pc = "progress"

\* C8: after a disagree branch x[f] is the value it had before the last
\* agree or neutral branch of f added its delta
C8_RevertExact ==
  \A f \in Features : last[f] = "disagree" => x[f] = xprev[f]

\* C8 witness: a disagree branch has reverted a delta that the orthant
\* guard of an agree branch had forced to 0 (x < 0, so pg was not 0)
C8_Witness ==
  /\ rho1 # 0
  /\ last[0] = "disagree"
  /\ dlt[0] = 0
  /\ x[0] < 0

\* C9: after n updates of f, gp[f] is the gradient the provider returned in
\* its n-th call when the last branch was agree or neutral, and 0 when it
\* was disagree; it equals g[f] until the provider refills g
C9_GpRaw ==
  \A f \in Features :
    nupd[f] > 0 =>
      /\ last[f] \in {"agree", "neutral"} => gp[f] = hist[nupd[f]].g[f]
      /\ last[f] = "disagree" => gp[f] = 0
      /\ Len(hist) = nupd[f] => gp[f] = g[f]

\* C9 witness: with L1, an agree or neutral update has just been applied
\* whose pseudo-gradient differs from the raw gradient kept in gp
C9_Witness ==
  /\ rho1 # 0
  /\ nupd[0] > 0 /\ Len(hist) = nupd[0]
  /\ wpc[0] = "loop"
  /\ last[0] \in {"agree", "neutral"}
  /\ wpg[0] # gp[0]
  /\ wpg[0] # 0

\* the classical RPROP rule: on agreement of the previous and the current
\* gradient grow the step and move against the gradient, on disagreement
\* shrink the step, take back the last delta and forget the gradient,
\* otherwise move against the gradient with the step unchanged
Classical(o, xf, gf, gpf, stpf, dltf) ==
  IF sign(gpf) * sign(gf) > 0
    THEN LET s == min((stpf * o.stpinc) \div Scale, o.stpmax)
         IN  [x |-> xf - sign(gf) * s, stp |-> s, dlt |-> -sign(gf) * s,
              g |-> gf, gp |-> gf]
  ELSE IF sign(gpf) * sign(gf) < 0
    THEN LET s == max((stpf * o.stpdec) \div Scale, o.stpmin)
         IN  [x |-> xf - dltf, stp |-> s, dlt |-> dltf, g |-> 0, gp |-> 0]
  ELSE [x |-> xf - sign(gf) * stpf, stp |-> stpf, dlt |-> -sign(gf) * stpf,
        g |-> gf, gp |-> gf]

\* C10: with rho1 = 0 the pseudo-gradient of every update is g[f], and every
\* update leaves x, stp, dlt, g and gp of its feature as the classical rule
\* does (so the stored delta is 0 only where the classical one is)
C10_NoL1Classical ==
  /\ [](rho1 = 0 => \A w \in Workers : wpc[w] = "upd" => wpg[w] = g[wf[w]])
  /\ [][rho1 = 0 =>
          \A w \in Workers :
            (wpc[w] = "upd" /\ wpc'[w] = "loop") =>
              LET f == wf[w]
                  c == Classical(rprop, x[f], g[f], gp[f], stp[f], dlt[f])
              IN  /\ x'[f] = c.x
                  /\ stp'[f] = c.stp
                  /\ dlt'[f] = c.dlt
                  /\ g'[f] = c.g
                  /\ gp'[f] = c.gp]_vars

\* C10 witness: without L1, a disagree branch has shrunk a step that an
\* agree branch had grown to stpmax, down to stpmin
C10_Witness ==
  /\ rho1 = 0
  /\ last[0] = "disagree"
  /\ stp[0] = rprop.stpmin
  /\ nupd[0] >= 3

\* invocation w applies the update of its current feature in this step
Updates(w) == wpc[w] = "upd" /\ wpc'[w] = "loop"

\* invocation w computes the pseudo-gradient of its current feature
Projects(w) == wpc[w] = "loop" /\ wpc'[w] = "upd"

\* the step the agree and neutral branches try before the guard
Candidate(br, gf, pg, ns) ==
  IF br = "agree" THEN -sign(gf) * ns ELSE -sign(pg) * ns

\* C11: with L1, an agree or neutral update adds to x[f] the delta it
\* stores, and that delta is 0 or has dlt * pg < 0; when the candidate step
\* has dlt * pg >= 0 the stored delta is 0 and x[f] keeps its value
C11_GuardedDelta ==
  [][rho1 # 0 =>
       \A w \in Workers :
         (Updates(w) /\ last'[wf[w]] \in {"agree", "neutral"}) =>
           LET f == wf[w]
               c == Candidate(last'[f], g[f], wpg[w], stp'[f])
           IN  /\ x'[f] = x[f] + dlt'[f]
               /\ dlt'[f] = 0 \/ dlt'[f] * wpg[w] < 0
               /\ c * wpg[w] >= 0 => (dlt'[f] = 0 /\ x'[f] = x[f])
               /\ c * wpg[w] < 0 => dlt'[f] = c]_vars

\* C11 witness: with L1, an agree branch whose candidate step was not 0
\* (the gradient and the step were not 0) has stored the delta 0
C11_Witness ==
  /\ rho1 # 0
  /\ wpc[0] = "loop" /\ nupd[0] > 0 /\ Len(hist) = nupd[0]
  /\ last[0] = "agree"
  /\ gp[0] # 0 /\ stp[0] > 0
  /\ dlt[0] = 0

\* the range invocation w has computed
InRange(w, f) == wfrom'[w] <= f /\ f < wto'[w]

\* C12: a step of an invocation leaves x, g, gp, stp and dlt as they are at
\* every index outside its range [from, to), and changes nothing of the
\* configuration, of the stop flag or of the state of trn_rprop
C12_Frame ==
  [][\A w \in Workers :
       (wpc[w] \in {"start", "loop", "upd"} /\ wpc'[w] # wpc[w]) =>
         /\ \A f \in Features :
              ~InRange(w, f) =>
                /\ x'[f] = x[f] /\ g'[f] = g[f] /\ gp'[f] = gp[f]
                /\ stp'[f] = stp[f] /\ dlt'[f] = dlt[f]
         /\ UNCHANGED <<nftr, nthread, maxiter, rprop, rho1, uit_stop, pc, k,
                        fx>>]_vars

\* C12 witness: an invocation whose range has features before it and after
\* it has updated a feature
C12_Witness ==
  \E w \in Workers :
    /\ wpc[w] = "loop"
    /\ 0 < wfrom[w] /\ wfrom[w] < wf[w] /\ wto[w] < nftr
    /\ x[wfrom[w]] # theta0[wfrom[w]]

\* the pseudo-gradient as the five cases of the claim
PgCases(r1, xf, gf) ==
  CASE xf < 0 -> gf - r1
    [] xf > 0 -> gf + r1
    [] xf = 0 /\ gf < -r1 -> gf + r1
    [] xf = 0 /\ gf > r1 -> gf - r1
    [] xf = 0 /\ -r1 <= gf /\ gf <= r1 -> 0

\* C13: with L1, the pseudo-gradient computed for a feature is given by the
\* five cases, and computing it changes neither g nor x
C13_PseudoGradient ==
  [][rho1 # 0 =>
       \A w \in Workers :
         Projects(w) =>
           /\ wpg'[w] = PgCases(rho1, x[wf[w]], g[wf[w]])
           /\ UNCHANGED <<x, g>>]_vars

\* C13 witness: with L1, the pseudo-gradient of a positive weight has the
\* sign opposite to the raw gradient
C13_Witness ==
  /\ rho1 # 0
  /\ wpc[0] = "upd"
  /\ x[0] > 0
  /\ g[0] < 0 /\ wpg[0] > 0

\* C14: with L1, an agree or neutral update never takes x[f] from a
\* positive to a negative value nor from a negative to a positive value
C14_NoCrossing ==
  [][rho1 # 0 =>
       \A w \in Workers :
         (Updates(w) /\ last'[wf[w]] \in {"agree", "neutral"}) =>
           /\ ~(x[wf[w]] > 0 /\ x'[wf[w]] < 0)
           /\ ~(x[wf[w]] < 0 /\ x'[wf[w]] > 0)]_vars

\* C15: the first update of a feature takes the neutral branch, and a
\* disagree branch, the only reader of dlt[f], directly follows an agree or
\* a neutral branch of the same feature, which has written dlt[f]
C15_DltWrittenFirst ==
  /\ [](\A f \in Features : nupd[f] = 0 => (gp[f] = 0 /\ last[f] = "none"))
  /\ [][\A w \in Workers :
          Updates(w) =>
            /\ nupd[wf[w]] = 0 => last'[wf[w]] = "neutral"
            /\ last'[wf[w]] = "disagree" =>
                 last[wf[w]] \in {"agree", "neutral"}]_vars

\* C15 witness: the second update of a feature was a disagree branch that
\* took back a delta that was not 0
C15_Witness ==
  /\ last[0] = "disagree"
  /\ nupd[0] = 2
  /\ dlt[0] # 0
  /\ x[0] = theta0[0]

\* C19: after a disagree branch gp[f] is 0, and g[f] is 0 until the provider
\* refills it; the next update of f is a neutral branch whatever the new
\* gradient is: it is no disagree branch, it leaves stp[f] as it is and it
\* adds a new delta instead of taking one back
C19_NeutralAfterDisagree ==
  /\ [](\A f \in Features :
          last[f] = "disagree" =>
            /\ gp[f] = 0
            /\ Len(hist) = nupd[f] => g[f] = 0)
  /\ [][\A w \in Workers :
          (Updates(w) /\ last[wf[w]] = "disagree") =>
            /\ last'[wf[w]] = "neutral"
            /\ stp'[wf[w]] = stp[wf[w]]
            /\ x'[wf[w]] = x[wf[w]] + dlt'[wf[w]]]_vars

\* C19 witness: gradients of alternating sign, without L1: the update after
\* the disagree branch was a neutral one that moved x
C19_Witness ==
  /\ rho1 = 0
  /\ nupd[0] = 3 /\ Fed(0, 3) = <<1, -1, 1>>
  /\ last[0] = "neutral"
  /\ dlt[0] < 0

\* every progress callback so far returned continue
AllContinue == \A i \in 1 .. Len(calls) : calls[i].res

\* C16: the loop ends; the gradient provider is called at most maxiter
\* times and at most maxiter update phases are run (none for maxiter = 0);
\* the loop ends on its budget exactly when maxiter update phases have
\* completed, the stop flag was never found set and every callback returned
\* continue, and on a stop otherwise; after the end nothing changes
C16_Terminates ==
  /\ <>(pc = "done")
  /\ [](Len(hist) <= maxiter /\ nphase <= maxiter)
  /\ [](pc = "done" <=> halt # "none")
  /\ [](pc = "done" =>
          /\ halt \in {"budget", "stop", "callback"}
          /\ halt = "budget" <=>
               (nphase = maxiter /\ halt # "stop" /\ AllContinue)
          /\ halt = "callback" <=> ~AllContinue)
  /\ [][pc = "done" => UNCHANGED vars]_vars

\* C16 witness: the loop has ended on its budget after two update phases
C16_Witness ==
  /\ pc = "done" /\ halt = "budget"
  /\ maxiter >= 2 /\ nphase = maxiter
  /\ nftr > 0

\* C17: when the stop flag is set during the n-th update phase, that phase
\* still updates every feature and its progress callback is still made,
\* and neither a later gradient computation nor a later update phase starts
C17_PhaseNotInterrupted ==
  /\ [](sigphase > 0 =>
          /\ uit_stop
          /\ Len(hist) = sigphase
          /\ nphase <= sigphase
          /\ pc \in {"join", "progress", "loop", "done"}
          /\ pc # "join" =>
               /\ nphase = sigphase
               /\ \A f \in Features : nupd[f] = sigphase
          /\ pc \in {"loop", "done"} => Len(calls) = sigphase)
  /\ (sigphase > 0) ~>
       (/\ Len(calls) = sigphase
        /\ \A f \in Features : nupd[f] = sigphase)

\* C17 witness: the flag was set during the second update phase of two
\* invocations; the phase was completed, its callback returned continue,
\* and the loop then ended on the stop flag
C17_Witness ==
  /\ sigphase = 2
  /\ nthread = 2 /\ nftr = 2
  /\ pc = "done" /\ halt = "stop"
  /\ Len(calls) = 2 /\ calls[2].res
  /\ \A f \in Features : nupd[f] = 2

\* the number of reads of the stop flag when it is read once an iteration
PollsOnce ==
  IF pc \in {"loop", "grad", "chk"} THEN k
  ELSE IF pc = "done" THEN Len(hist)
  ELSE k + 1

\* C18 as stated: the stop flag is read once an iteration, after the
\* gradient provider returned, and the loop condition goes on to the
\* gradient provider whenever k < maxiter, whatever the stop flag is
C18_PolledOnce ==
  /\ [](npoll = PollsOnce)
  /\ [][(pc = "loop" /\ pc' # "loop" /\ k < maxiter) => pc' = "grad"]_vars

\* the number of reads of the stop flag when it is read twice an iteration
PollsTwice ==
  IF pc = "loop" THEN 2 * k
  ELSE IF pc \in {"grad", "chk"} THEN 2 * k + 1
  ELSE IF pc = "done" THEN k + Len(hist) + 1
  ELSE 2 * k + 2

\* C18 amended: the stop flag is read twice an iteration, in the loop
\* condition before the gradient provider is called and once more after it
\* returned; the loop condition goes on to the gradient provider exactly
\* when k < maxiter and the flag is clear, and ends the loop without a
\* gradient computation otherwise
C18_PolledTwice ==
  /\ [](npoll = PollsTwice)
  /\ [][(pc = "loop" /\ pc' # "loop") =>
          /\ npoll' = npoll + 1
          /\ hist' = hist
          /\ pc' = IF ~uit_stop /\ k < maxiter THEN "grad" ELSE "done"]_vars
  /\ [][(pc = "chk" /\ pc' # "chk") =>
          /\ npoll' = npoll + 1
          /\ pc' = IF uit_stop THEN "done" ELSE "spawn"]_vars
  /\ [][(pc = "grad" /\ pc' # "grad") =>
          (pc' = "chk" /\ Len(hist') = Len(hist) + 1)]_vars

\* C18 witness: the first callback returned continue and k = 1 < maxiter,
\* but the stop flag, set outside the update phase, was found set in the
\* loop condition and the loop ended without a second gradient computation
C18_Witness ==
  /\ pc = "done" /\ halt = "stop"
  /\ sigphase = 0
  /\ k = 1 /\ maxiter >= 2
  /\ Len(calls) = 1 /\ calls[1].res
  /\ Len(hist) = 1
  /\ npoll = 3

\* one sequential update of feature f from the state at the dispatch
Sequential(f) ==
  LET pg == PseudoGrad(rho1 # 0, rho1, pre.x[f], pre.g[f])
  IN  Update(rprop, rho1, pre.x[f], pre.g[f], pre.gp[f], pre.stp[f],
             pre.dlt[f], pg)

\* C20: when an update phase has completed, whatever the number of
\* invocations and the order of their steps, x, g, gp, stp and dlt are
\* what one sequential pass over [0, F) makes of the state at the dispatch
C20_SameAsSequential ==
  pc = "progress" =>
    \A f \in Features :
      LET r == Sequential(f)
      IN  /\ x[f] = r.x
          /\ g[f] = r.g
          /\ gp[f] = r.gp
          /\ stp[f] = r.stp
          /\ dlt[f] = r.dlt

\* C20 witness: the second update phase of two invocations over three
\* features has completed, with L1, one feature having taken the disagree
\* branch and another one not
C20_Witness ==
  /\ pc = "progress" /\ k = 1
  /\ nthread = 2 /\ nftr = 3
  /\ rho1 # 0
  /\ \E f \in Features : last[f] = "disagree"
  /\ \E f \in Features : last[f] # "disagree" /\ x[f] # pre.x[f]

====
